---- MODULE Spec2Model ----
(***************************************************************************)
(* Window lifecycle of baseview's X11 backend: Window::open_parented,      *)
(* Window::open_blocking, Window::window_thread, the WindowHandle /        *)
(* ParentHandle liveness protocol and the event loop that window_thread    *)
(* hands the window to.  One window is opened per behaviour; the caller    *)
(* (initiating thread) and the window thread are the two processes.        *)
(***************************************************************************)
EXTENDS Integers, Sequences, FiniteSets, TLC

\* ------------------------------------------------------------------ bounds
\* largest logical width requested in WindowOpenOptions
MaxDim == 1
\* largest scale factor, counted in halves (2 = 1.0, 3 = 1.5)
MaxScale == 3
\* native events the X server produces during one window's life
MaxEvents == 1

\* ------------------------------------------------------- values and inputs
\* scale factors in halves: 1.0 .. MaxScale/2
Scales == 2..MaxScale

\* options.size: logical width and height (width w, height w + 1)
Sizes == {[width |-> w, height |-> w + 1] : w \in 1..MaxDim}

\* WindowScalePolicy: SystemScaleFactor | ScaleFactor(scale)
ScalePolicies ==
    {[tag |-> "SystemScaleFactor", scale |-> 0]}
        \cup {[tag |-> "ScaleFactor", scale |-> s] : s \in Scales}

\* WindowOpenOptions, as far as window_thread reads it
WindowOpenOptions == [size : Sizes, scale : ScalePolicies]

\* what xcb_connection.get_scaling() can answer: nothing (0) or a factor
SystemScalings == {0} \cup Scales

\* kinds of raw handle parent.window_handle() can yield; "Unavailable" is Err
ParentKinds == {"Xlib", "Xcb", "Win32", "Unavailable"}

\* native events the X server queues for the window
XEvents == {"ClientMessageDelete", "Input"}

NoOptions == [size |-> [width |-> 0, height |-> 0],
              scale |-> [tag |-> "none", scale |-> 0]]

NoInfo == [logical |-> [width |-> 0, height |-> 0],
           physical |-> [width |-> 0, height |-> 0],
           scale |-> 0]

NoCall == [kind |-> "none", event |-> "none", info |-> NoInfo]

\* MouseCursor values the handler asks for; Default is MouseCursor::default()
Cursors == {"Default", "Hand"}

\* no size: nothing was requested from the server
NoSize == [width |-> 0, height |-> 0]

\* the logical size the handler passes to Window::resize
ResizeSizes == {[width |-> 2, height |-> 4]}

\* the physical size a window manager gives the window on its own; every
\* scale of the model divides it exactly
WMSizes == {[width |-> 12, height |-> 24]}

\* the WindowInner values of window_thread: the one moved into the event
\* loop (line 270), the one inside `window` (line 283), and the clones given
\* to build (line 285) and with the initial event (line 289)
Inners == {"inner", "window", "build", "event"}
HandlerWindows == {"build", "event"}

\* what xcb_connection.get_cursor(..) can answer at line 305: an error, the
\* null cursor id (0) or the id of a cursor
CursorLookups == {"Err", "null", "xid"}

\* no runtime Window operation was made yet
NoOp == [name |-> "none", arg |-> "none", failed |-> FALSE, returned |-> TRUE]

VARIABLES
    mode,                   \* "none" | "parented" | "blocking"
    parent_kind,            \* kind of the raw parent handle (parented mode)
    options,                \* the WindowOpenOptions of the open call
    cpc,                    \* position of the initiating thread
    wpc,                    \* position of the window thread
    panicking,              \* the window thread is unwinding from a panic
    panic_site,             \* where that panic was raised ("none" if none)
    tx_buf,                 \* buffer of sync_channel::<WindowOpenResult>(1)
    tx_senders,             \* live SyncSender<WindowOpenResult> values
    close_chan,             \* rendezvous channel: "idle" | "offered" | "taken"
    parent_handle,          \* ParentHandle: "none" | "alive" | "dropped"
    window_handle,          \* WindowHandle: [state, raw_window_handle]
    is_open,                \* the Arc<AtomicBool> shared by the two handles
    xres,                   \* native resources: [conn, gc, window], and
                            \* whether the window was ever mapped (shown)
    window_info,            \* WindowInfo computed at line 195
    inner_close_requested,  \* close_requested of the event loop's WindowInner
    clone_close_requested,  \* close_requested of the clones of lines 285/289
    xqueue,                 \* native events pending on the connection
    first_call,             \* first callback the built handler received
    pre_loop_calls,         \* handler callbacks made before the event loop
    loop_started,           \* EventLoop::run has been entered
    queried,                \* what get_scaling() answered (0: nothing / not asked)
    signalled,              \* window_thread sent Ok(..) on tx (line 291)
    xarrived,               \* native events the server has produced so far
    caller_acted,           \* the caller used its WindowHandle after the return
    close_called,           \* the caller called WindowHandle::close()
    observed,               \* is_open() as evaluated right after the return:
                            \* "none" | "open" | "closed"
    callback_threads,       \* the threads that ran build / on_event / on_frame
    mouse_cursor,           \* mouse_cursor Cell of the Window clones the handler
                            \* holds: [build, event] (lines 285 and 289)
    xcursor,                \* the cursor set on the native window
    last_op,                \* the last runtime Window operation and its outcome
    clone_window_info,      \* window_info field of the Window clones
    inners,                 \* the live WindowInner values
    gl_context,             \* "none" | "absent" | "alive" | "destroyed"
    teardown,               \* the natives destroyed so far, in order
    xrequest,               \* the size asked of the server and not yet applied
    xconfigs                \* the sizes of the pending ConfigureNotify events

vars == <<mode, parent_kind, options, cpc, wpc, panicking, tx_buf,
          tx_senders, close_chan, queried, parent_handle, window_handle, is_open, xres, window_info,
          inner_close_requested, clone_close_requested, xqueue, first_call,
          pre_loop_calls, loop_started, signalled, xarrived, caller_acted,
          close_called, observed, panic_site, callback_threads, mouse_cursor,
          xcursor, last_op, clone_window_info, inners, gl_context,
          teardown, xrequest, xconfigs>>

\* groups used in UNCHANGED
callerVars == <<cpc, window_handle, caller_acted, close_called, observed>>
openVars == <<mode, parent_kind, options>>
chanVars == <<tx_buf, tx_senders>>
histVars == <<first_call, pre_loop_calls, loop_started, signalled,
              callback_threads>>
panicVars == <<panicking, panic_site>>
cursorVars == <<mouse_cursor, xcursor>>
ownVars == <<inners, gl_context, teardown>>
sizeVars == <<xrequest, xconfigs>>
rtVars == <<cursorVars, last_op, clone_window_info, ownVars, sizeVars>>
flagVars == <<inner_close_requested, clone_close_requested>>

\* ---------------------------------------------------------- pure functions
\* (x * scale).round() with scale in halves; f64::round rounds half away
\* from zero
ScaleRound(x, scale) == (x * scale + 1) \div 2

\* WindowInfo::from_logical_size(logical_size, scale)
from_logical_size(size, scale) ==
    [logical |-> size,
     physical |-> [width |-> ScaleRound(size.width, scale),
                   height |-> ScaleRound(size.height, scale)],
     scale |-> scale]

\* WindowInfo::from_physical_size(physical_size, scale): the logical size is
\* the physical size divided by the scale
from_physical_size(size, scale) ==
    [logical |-> [width |-> (2 * size.width) \div scale,
                  height |-> (2 * size.height) \div scale],
     physical |-> size,
     scale |-> scale]

\* a scale resolution that ignores the fixed factor of the policy
ResolveScaling_unit(policy, system) == IF system = 0 THEN 2 ELSE system

\* lines 190-193: the scaling the window is opened with
ResolveScaling(policy, system) ==
    IF policy.tag = "SystemScaleFactor"
    THEN (IF system = 0 THEN 2 ELSE system)
    ELSE policy.scale

\* a parent check that lets every kind of handle through
ParentSupported_any(kind) == TRUE

\* lines 126-130: is the raw parent handle one X understands
ParentSupported(kind) == kind \in {"Xlib", "Xcb"}

\* a Drop for ParentHandle that leaves the flag as it is
ParentHandleDropStore_keep(flag) == flag

\* line 84: the value Drop for ParentHandle stores into the flag
ParentHandleDropStore(flag) == FALSE

\* a poll that never sees the close request
parent_did_drop_never(chan, senderAlive) == FALSE

\* line 78: try_recv().is_ok() on the rendezvous channel, given its state and
\* whether the sender (the WindowHandle) is still alive.  Only a parked
\* sender makes try_recv Ok; Empty and Disconnected are both Err.
parent_did_drop(chan, senderAlive) == chan = "offered"

\* line 42: can send() on the rendezvous channel finish: the receiver took
\* the message, or the receiver is gone (Err, discarded by .ok())
CloseSendDone(chan, ph) == chan = "taken" \/ ph # "alive"

\* a join that does not wait for the window thread
JoinDone_now(w) == TRUE

\* line 161: thread.join() returns once the window thread has terminated
JoinDone(w) == w = "terminated"

\* a recv that hands the message over only when every sender is gone
RecvReady_after_exit(buf, senders) == buf # <<>> /\ senders = 0

\* line 141 / 159: rx.recv() returns a message once one is buffered
RecvReady(buf, senders) == buf # <<>>

\* a recv that never notices the disconnected channel
RecvDisconnected_never(buf, senders) == FALSE

\* line 141 / 159: rx.recv() returns Err once every sender is gone and the
\* buffer is empty
RecvDisconnected(buf, senders) == buf = <<>> /\ senders = 0

\* the orders in which the WindowInner values of S can be dropped
DropOrders(S) ==
    {o \in [1..Cardinality(S) -> S] :
        \A i, j \in 1..Cardinality(S) : o[i] = o[j] => i = j}

\* a WindowInner that declares, and so drops, xcb_connection before gl_context
DropInner_conn_first(own, h) ==
    LET last == own.inners = {h}
        gl_gone == last /\ own.gl_context = "alive"
        log1 == IF last THEN Append(own.teardown, "conn") ELSE own.teardown
        log2 == IF gl_gone THEN Append(log1, "gl") ELSE log1
    IN  [inners |-> own.inners \ {h},
         gl_context |-> IF gl_gone THEN "destroyed" ELSE own.gl_context,
         teardown |-> log2]

\* lines 88-101: the WindowInner h is dropped, its fields in declaration
\* order: gl_context (an Rc, line 92) first, xcb_connection (an Rc, line 94)
\* after it.  Every WindowInner holds one count of each Rc, and the last
\* count that goes destroys the native.
DropInner(own, h) ==
    LET last == own.inners = {h}
        gl_gone == last /\ own.gl_context = "alive"
        log1 == IF gl_gone THEN Append(own.teardown, "gl") ELSE own.teardown
        log2 == IF last THEN Append(log1, "conn") ELSE log1
    IN  [inners |-> own.inners \ {h},
         gl_context |-> IF gl_gone THEN "destroyed" ELSE own.gl_context,
         teardown |-> log2]

\* the WindowInner values order[i..n] are dropped one after the other
RECURSIVE DropInOrder(_, _, _, _)
DropInOrder(own, order, i, n) ==
    IF i > n THEN own
    ELSE DropInOrder(DropInner(own, order[i]), order, i + 1, n)

\* ------------------------------------------------------------------- Init
Init ==
    /\ mode = "none"
    /\ parent_kind = "none"
    /\ options = NoOptions
    /\ cpc = "idle"
    /\ wpc = "none"
    /\ panicking = FALSE
    /\ tx_buf = <<>>
    /\ tx_senders = 0
    /\ close_chan = "idle"
    /\ parent_handle = "none"
    /\ window_handle = [state |-> "none", raw_window_handle |-> "None"]
    /\ is_open = FALSE
    /\ xres = [conn |-> "none", gc |-> "none", window |-> "none",
               shown |-> FALSE]
    /\ window_info = NoInfo
    /\ inner_close_requested = FALSE
    /\ clone_close_requested = FALSE
    /\ xqueue = <<>>
    /\ first_call = NoCall
    /\ pre_loop_calls = 0
    /\ loop_started = FALSE
    /\ queried = 0
    /\ signalled = FALSE
    /\ xarrived = 0
    /\ caller_acted = FALSE
    /\ close_called = FALSE
    /\ observed = "none"
    /\ panic_site = "none"
    /\ callback_threads = {}
    /\ mouse_cursor = [build |-> "Default", event |-> "Default"]
    /\ xcursor = "Default"
    /\ last_op = NoOp
    /\ clone_window_info = NoInfo
    /\ inners = {}
    /\ gl_context = "none"
    /\ teardown = <<>>
    /\ xrequest = NoSize
    /\ xconfigs = <<>>

\* ------------------------------------------------- the initiating thread
\* open_parented, lines 123-139: extract the parent id (panicking on an
\* unavailable or unsupported handle), create the channel and the handle
\* pair, spawn the window thread, then wait in rx.recv()
open_parented(kind, opts) ==
    /\ cpc = "idle"
    /\ mode' = "parented"
    /\ parent_kind' = kind
    /\ IF ParentSupported(kind)
       THEN /\ options' = opts
            /\ tx_senders' = 1
            /\ parent_handle' = "alive"
            /\ is_open' = TRUE
            /\ window_handle' = [state |-> "local", raw_window_handle |-> "None"]
            /\ wpc' = "spawned"
            /\ cpc' = "recv"
       ELSE /\ cpc' = "panicked"
            /\ UNCHANGED <<options, tx_senders, parent_handle, is_open,
                           window_handle, wpc>>
    /\ UNCHANGED <<panicVars, tx_buf, close_chan, queried, rtVars, xres, window_info,
                   flagVars, xqueue, histVars, xarrived, caller_acted,
                   close_called, observed>>

\* a return that leaves the raw handle of the WindowHandle absent
StoredRaw_absent(msg) == "None"

\* line 142: window_handle.raw_window_handle = Some(raw_window_handle)
StoredRaw(msg) == msg

\* open_parented, lines 141-144: rx.recv().unwrap().unwrap(), then the raw
\* handle is stored and the WindowHandle returned
open_parented_recv ==
    /\ cpc = "recv"
    /\ mode = "parented"
    /\ \/ /\ RecvReady(tx_buf, tx_senders)
          /\ window_handle' = [state |-> "returned",
                               raw_window_handle |-> StoredRaw(Head(tx_buf))]
          /\ tx_buf' = Tail(tx_buf)
          /\ cpc' = "has_handle"
       \/ /\ RecvDisconnected(tx_buf, tx_senders)
          /\ window_handle' = [window_handle EXCEPT !.state = "dropped"]
          /\ cpc' = "panicked"
          /\ UNCHANGED tx_buf
    /\ UNCHANGED <<openVars, wpc, panicVars, tx_senders, close_chan, queried, rtVars,
                   parent_handle, is_open, xres, window_info, flagVars, xqueue,
                   histVars, xarrived, caller_acted, close_called, observed>>

\* open_blocking, lines 153-157: create the channel, spawn the window thread
open_blocking(opts) ==
    /\ cpc = "idle"
    /\ mode' = "blocking"
    /\ options' = opts
    /\ tx_senders' = 1
    /\ wpc' = "spawned"
    /\ cpc' = "recv"
    /\ UNCHANGED <<parent_kind, panicVars, tx_buf, close_chan, queried, rtVars,
                   parent_handle, window_handle, is_open, xres, window_info,
                   flagVars, xqueue, histVars, xarrived, caller_acted,
                   close_called, observed>>

\* open_blocking, line 159: rx.recv().unwrap().unwrap()
open_blocking_recv ==
    /\ cpc = "recv"
    /\ mode = "blocking"
    /\ \/ /\ RecvReady(tx_buf, tx_senders)
          /\ tx_buf' = Tail(tx_buf)
          /\ cpc' = "join"
       \/ /\ RecvDisconnected(tx_buf, tx_senders)
          /\ cpc' = "panicked"
          /\ UNCHANGED tx_buf
    /\ UNCHANGED <<openVars, wpc, panicVars, tx_senders, close_chan, queried, rtVars,
                   parent_handle, window_handle, is_open, xres, window_info,
                   flagVars, xqueue, histVars, xarrived, caller_acted,
                   close_called, observed>>

\* open_blocking, lines 161-163: thread.join(); a panic of the window thread
\* is printed and open_blocking returns
open_blocking_join ==
    /\ cpc = "join"
    /\ JoinDone(wpc)
    /\ cpc' = "returned"
    /\ UNCHANGED <<openVars, wpc, panicVars, chanVars, close_chan, queried, rtVars,
                   parent_handle, window_handle, is_open, xres, window_info,
                   flagVars, xqueue, histVars, xarrived, caller_acted,
                   close_called, observed>>

\* a close() that also stores false into the liveness flag
close_call_stores ==
    /\ cpc = "has_handle"
    /\ cpc' = "in_close"
    /\ close_chan' = IF parent_handle = "alive" THEN "offered" ELSE close_chan
    /\ caller_acted' = TRUE
    /\ close_called' = TRUE
    /\ is_open' = FALSE
    /\ UNCHANGED <<openVars, wpc, panicVars, chanVars, queried, rtVars,
                   parent_handle, window_handle, xres, window_info, flagVars,
                   xqueue, histVars, xarrived, observed>>

\* WindowHandle::close, line 42, the call: send(()) on the rendezvous
\* channel parks the sender while the receiver is alive
close_call ==
    /\ cpc = "has_handle"
    /\ cpc' = "in_close"
    /\ close_chan' = IF parent_handle = "alive" THEN "offered" ELSE close_chan
    /\ caller_acted' = TRUE
    /\ close_called' = TRUE
    /\ UNCHANGED <<openVars, wpc, panicVars, chanVars, queried, rtVars, parent_handle,
                   window_handle, is_open, xres, window_info, flagVars, xqueue,
                   histVars, xarrived, observed>>

\* WindowHandle::close, line 42, the return: send() finished, .ok() drops
\* its result
close_return ==
    /\ cpc = "in_close"
    /\ CloseSendDone(close_chan, parent_handle)
    /\ cpc' = "has_handle"
    /\ close_chan' = "idle"
    /\ UNCHANGED <<openVars, wpc, panicVars, chanVars, queried, rtVars, parent_handle,
                   window_handle, is_open, xres, window_info, flagVars, xqueue,
                   histVars, xarrived, caller_acted, close_called, observed>>

\* WindowHandle::is_open, lines 45-47
is_open_call ==
    /\ cpc = "has_handle"
    /\ observed' = IF caller_acted THEN observed
                   ELSE IF is_open THEN "open" ELSE "closed"
    /\ caller_acted' = TRUE
    /\ UNCHANGED <<openVars, cpc, wpc, panicVars, chanVars, close_chan, queried, rtVars,
                   parent_handle, window_handle, is_open, xres, window_info,
                   flagVars, xqueue, histVars, xarrived, close_called>>

\* the caller drops its WindowHandle (lines 34-38: the SyncSender and the
\* Arc are released, nothing else happens)
drop_window_handle ==
    /\ cpc = "has_handle"
    /\ cpc' = "done"
    /\ window_handle' = [window_handle EXCEPT !.state = "dropped"]
    /\ caller_acted' = TRUE
    /\ UNCHANGED <<openVars, wpc, panicVars, chanVars, close_chan, queried, rtVars,
                   parent_handle, is_open, xres, window_info, flagVars, xqueue,
                   histVars, xarrived, close_called, observed>>

\* ----------------------------------------------------- the window thread
\* what a window-thread step outside the handshake leaves alone
threadFrame == <<openVars, callerVars, tx_buf, close_chan>>

\* a fallible native call of window_thread (`?`): on Ok the thread goes on
\* to `to` holding resources `res`; on Err window_thread returns the error
\* and the closure's unwrap() panics (lines 138, 156)
NativeCall(from, to, res) ==
    /\ wpc = from
    /\ \E ok \in BOOLEAN :
          IF ok
          THEN /\ wpc' = to
               /\ xres' = res
               /\ UNCHANGED panicVars
          ELSE /\ wpc' = "drop_locals"
               /\ panicking' = TRUE
               /\ panic_site' = "native"
               /\ UNCHANGED xres
    /\ UNCHANGED <<threadFrame, tx_senders, queried, rtVars, parent_handle, is_open,
                   window_info, flagVars, xqueue, histVars, xarrived>>

\* lines 136-138 / 155-157: the spawned closure starts; in parented mode it
\* passes tx.clone() and keeps tx, in blocking mode it moves tx
thread_start ==
    /\ wpc = "spawned"
    /\ wpc' = "connect"
    /\ tx_senders' = IF mode = "parented" THEN tx_senders + 1 ELSE tx_senders
    /\ UNCHANGED <<threadFrame, panicVars, queried, rtVars, parent_handle, is_open,
                   xres, window_info, flagVars, xqueue, histVars, xarrived>>

\* line 177: XcbConnection::new()?
connect == NativeCall("connect", "create_gc", [xres EXCEPT !.conn = "open"])

\* lines 183-188: generate_id()?, create_gc(..)?
create_gc == NativeCall("create_gc", "scaling", [xres EXCEPT !.gc = "created"])

\* lines 190-195: resolve the scale policy and compute the WindowInfo
compute_window_info ==
    /\ wpc = "scaling"
    /\ \E system \in (IF options.scale.tag = "SystemScaleFactor"
                      THEN SystemScalings ELSE {0}) :
          /\ queried' = system
          /\ window_info' =
                from_logical_size(options.size,
                                  ResolveScaling(options.scale, system))
    /\ wpc' = "visual"
    /\ UNCHANGED <<threadFrame, panicVars, rtVars, tx_senders, parent_handle, is_open,
                   xres, flagVars, xqueue, histVars, xarrived>>

\* lines 197-202: find_best_visual_config(..)?
find_visual == NativeCall("visual", "create_window", xres)

\* lines 204-232: generate_id()?, create_window(..)?
create_window ==
    NativeCall("create_window", "map_window", [xres EXCEPT !.window = "created"])

\* line 233: map_window(window_id)?
map_window ==
    NativeCall("map_window", "properties",
               [xres EXCEPT !.window = "mapped", !.shown = TRUE])

\* lines 236-251: change_property8(..)?, change_property32(..)?
set_properties == NativeCall("properties", "flush", xres)

\* line 253: flush()?
flush == NativeCall("flush", "build", xres)

\* a window_thread that is called on the thread of the open call
RunsOn_caller(m) == "caller"

\* lines 136 / 155: window_thread runs in the closure given to
\* thread::spawn, in both modes
RunsOn(m) == "spawned"

\* a callback reaches the handler: the first one is remembered, and those
\* made before EventLoop::run are counted
Deliver(kind, event, info) ==
    /\ callback_threads' = callback_threads \cup {RunsOn(mode)}
    /\ first_call' = IF first_call = NoCall
                     THEN [kind |-> kind, event |-> event, info |-> info]
                     ELSE first_call
    /\ pre_loop_calls' = IF loop_started THEN pre_loop_calls
                         ELSE pre_loop_calls + 1

\* lines 258-285: the GL context is made or not (gl), then WindowInner and
\* the Window, which holds a clone of it; build(window.clone()) is called
\* with a clone of that
build_window(gl) ==
    /\ wpc = "build"
    /\ wpc' = "in_build"
    /\ callback_threads' = callback_threads \cup {RunsOn(mode)}
    /\ gl_context' = gl
    /\ inners' = {"inner", "window", "build"}
    /\ clone_window_info' = window_info
    /\ UNCHANGED <<threadFrame, panicVars, tx_senders, queried, cursorVars,
                   last_op, teardown, sizeVars,
                   parent_handle, is_open, xres, window_info, flagVars, xqueue,
                   first_call, pre_loop_calls, loop_started, signalled,
                   xarrived>>

\* lines 270-285 in a build without the opengl feature
call_build == build_window("absent")

\* lines 258-285 in a build with the opengl feature: there is a context when
\* the visual has a framebuffer config and GlContext::create succeeds
call_build_opengl == \E gl \in {"absent", "alive"} : build_window(gl)

\* line 289: handler.on_event(window.clone(), Resized(window_info))
initial_event ==
    /\ wpc = "initial_event"
    /\ wpc' = "in_initial_event"
    /\ Deliver("on_event", "Resized", window_info)
    /\ inners' = inners \cup {"event"}
    /\ UNCHANGED <<threadFrame, panicVars, tx_senders, queried, cursorVars,
                   last_op, clone_window_info, gl_context, teardown, sizeVars,
                   parent_handle,
                   is_open, xres, window_info, flagVars, xqueue, loop_started,
                   signalled, xarrived>>

\* lines 291-293: let _ = tx.send(Ok(SendableRwh(..))); the buffer of one
\* slot is empty, so the send never waits
signal_open ==
    /\ wpc = "signal"
    /\ tx_buf' = Append(tx_buf, "Xlib")
    /\ signalled' = TRUE
    /\ wpc' = "run"
    /\ UNCHANGED <<openVars, callerVars, close_chan, panicVars, tx_senders,
                   queried, rtVars, parent_handle, is_open, xres, window_info,
                   flagVars, xqueue, first_call, pre_loop_calls, loop_started,
                   callback_threads, xarrived>>

\* ------------------------------------------- the handler inside a callback
InCallback == {"in_build", "in_initial_event", "in_on_event", "in_on_frame"}
PreLoopCallback == {"in_build", "in_initial_event"}

\* where window_thread / the event loop continues after a callback
AfterCallback(w) ==
    CASE w = "in_build" -> "initial_event"
      [] w = "in_initial_event" -> "signal"
      [] w = "in_on_event" -> "loop_drain"
      [] w = "in_on_frame" -> "loop_drain"

\* the callback a panic of the handler is raised in
PanicSite(w) ==
    CASE w = "in_build" -> "build"
      [] w = "in_initial_event" -> "initial_event"
      [] w = "in_on_event" -> "dispatch"
      [] w = "in_on_frame" -> "dispatch"

\* build / on_event / on_frame returns
handler_return ==
    /\ wpc \in InCallback
    /\ wpc' = AfterCallback(wpc)
    /\ UNCHANGED <<threadFrame, panicVars, tx_senders, queried, rtVars, parent_handle,
                   is_open, xres, window_info, flagVars, xqueue, histVars,
                   xarrived>>

\* build / on_event / on_frame panics: window_thread unwinds
handler_panic ==
    /\ wpc \in InCallback
    /\ wpc' = IF wpc \in PreLoopCallback THEN "drop_locals"
              ELSE "drop_event_loop"
    /\ panicking' = TRUE
    /\ panic_site' = PanicSite(wpc)
    /\ UNCHANGED <<threadFrame, tx_senders, queried, rtVars, parent_handle, is_open,
                   xres, window_info, flagVars, xqueue, histVars, xarrived>>

\* Window::close (lines 334-336) on a Window the handler got from build or
\* with the initial event: these are clones (lines 283-289) of a WindowInner
\* that derives Clone (lines 88-101), so the flag that is set is the clone's
window_close_clone ==
    /\ wpc \in InCallback
    /\ clone_close_requested' = TRUE
    /\ UNCHANGED <<threadFrame, wpc, panicVars, tx_senders, queried, rtVars,
                   parent_handle, is_open, xres, window_info,
                   inner_close_requested, xqueue, histVars, xarrived>>

\* Window::close on the Window the event loop passed to on_event / on_frame:
\* the loop observes it
window_close_loop ==
    /\ wpc \in InCallback \ PreLoopCallback
    /\ inner_close_requested' = TRUE
    /\ UNCHANGED <<threadFrame, wpc, panicVars, tx_senders, queried, rtVars,
                   parent_handle, is_open, xres, window_info,
                   clone_close_requested, xqueue, histVars, xarrived>>

\* the WindowInner values in dying are dropped, in any order
DropInners(dying) ==
    \E order \in DropOrders(dying) :
       LET own == DropInOrder([inners |-> inners, gl_context |-> gl_context,
                               teardown |-> teardown],
                              order, 1, Cardinality(dying))
       IN  /\ inners' = own.inners
           /\ gl_context' = own.gl_context
           /\ teardown' = own.teardown

\* ------------------------------------- runtime operations of the handler
\* the handler, inside a callback, uses the Window clone w it was given
HandlerHolds(w) == wpc \in InCallback /\ w \in inners \cap HandlerWindows

\* what a runtime operation of the handler leaves alone
opFrame == <<threadFrame, tx_senders, queried, parent_handle, is_open, xres,
             window_info, flagVars, xqueue, histVars, xarrived,
             clone_window_info, ownVars, xconfigs>>

\* the outcome of a runtime operation, as the handler sees it
OpDone(name, arg, failed) ==
    [name |-> name, arg |-> arg, failed |-> failed, returned |-> TRUE]

\* Window::set_mouse_cursor, lines 300-316, on the clone w: nothing happens
\* when w's cache already holds the cursor; else the cursor id is looked up
\* and unwrapped (a failed lookup panics), a non-null id is sent to the
\* server with the errors of the request and of the flush discarded, and
\* w's cache is set
set_mouse_cursor(w, c) ==
    /\ HandlerHolds(w)
    /\ IF mouse_cursor[w] = c
       THEN /\ last_op' = OpDone("set_mouse_cursor", c, FALSE)
            /\ UNCHANGED <<wpc, panicVars, cursorVars>>
       ELSE \E xid \in CursorLookups, ok \in BOOLEAN :
               IF xid = "Err"
               THEN /\ ok
                    /\ wpc' = IF wpc \in PreLoopCallback THEN "drop_locals"
                              ELSE "drop_event_loop"
                    /\ panicking' = TRUE
                    /\ panic_site' = "set_mouse_cursor"
                    /\ last_op' = [name |-> "set_mouse_cursor", arg |-> c,
                                   failed |-> TRUE, returned |-> FALSE]
                    /\ UNCHANGED cursorVars
               ELSE /\ xid = "null" => ok
                    /\ xcursor' = IF xid = "xid" /\ ok THEN c ELSE xcursor
                    /\ mouse_cursor' = [mouse_cursor EXCEPT ![w] = c]
                    /\ last_op' = OpDone("set_mouse_cursor", c, ~ok)
                    /\ UNCHANGED <<wpc, panicVars>>
    /\ UNCHANGED <<opFrame, xrequest>>

\* Window::set_mouse_position, lines 318-332: warp_pointer and flush, their
\* errors discarded
set_mouse_position(w) ==
    /\ HandlerHolds(w)
    /\ \E ok \in BOOLEAN : last_op' = OpDone("set_mouse_position", "none", ~ok)
    /\ UNCHANGED <<opFrame, wpc, panicVars, cursorVars, xrequest>>

\* a resize that takes the new WindowInfo for the window's own
resize_stores(w, size) ==
    /\ HandlerHolds(w)
    /\ \E ok \in BOOLEAN :
          /\ xrequest' =
                IF ok
                THEN from_logical_size(size, clone_window_info.scale).physical
                ELSE xrequest
          /\ last_op' = OpDone("resize", "none", ~ok)
    /\ window_info' = from_logical_size(size, clone_window_info.scale)
    /\ UNCHANGED <<threadFrame, tx_senders, queried, parent_handle, is_open,
                   xres, flagVars, xqueue, histVars, xarrived,
                   clone_window_info, ownVars, xconfigs, wpc, panicVars,
                   cursorVars>>

\* Window::resize, lines 344-358: the physical size for the logical size is
\* computed with the scale of w's window_info and asked of the server with
\* configure_window and flush, their errors discarded; no window_info is
\* written
resize(w, size) ==
    /\ HandlerHolds(w)
    /\ \E ok \in BOOLEAN :
          /\ xrequest' =
                IF ok
                THEN from_logical_size(size, clone_window_info.scale).physical
                ELSE xrequest
          /\ last_op' = OpDone("resize", "none", ~ok)
    /\ UNCHANGED <<opFrame, wpc, panicVars, cursorVars>>

\* Window::has_focus, lines 338-340: false
has_focus(w) ==
    /\ HandlerHolds(w)
    /\ last_op' = OpDone("has_focus", "false", FALSE)
    /\ UNCHANGED <<opFrame, wpc, panicVars, cursorVars, xrequest>>

\* Window::focus, line 342: nothing
focus(w) ==
    /\ HandlerHolds(w)
    /\ last_op' = OpDone("focus", "none", FALSE)
    /\ UNCHANGED <<opFrame, wpc, panicVars, cursorVars, xrequest>>

\* the handler drops the Window clone w instead of keeping it
drop_clone(w) ==
    /\ HandlerHolds(w)
    /\ DropInners({w})
    /\ UNCHANGED <<threadFrame, tx_senders, queried, parent_handle, is_open,
                   xres, window_info, flagVars, xqueue, histVars, xarrived,
                   clone_window_info, sizeVars, wpc, panicVars, cursorVars,
                   last_op>>

\* ----------------------------------------------------------- the X server
\* the server queues a native event for the mapped window
xevent_arrives(e) ==
    /\ xres.window = "mapped"
    /\ xarrived < MaxEvents
    /\ xqueue' = Append(xqueue, e)
    /\ xarrived' = xarrived + 1
    /\ UNCHANGED <<threadFrame, wpc, panicVars, tx_senders, queried, rtVars,
                   parent_handle, is_open, xres, window_info, flagVars,
                   histVars>>

\* the server gives the mapped window a new size, the one asked for with
\* configure_window or one of the window manager's, and queues the
\* ConfigureNotify for it
configure_notify(size) ==
    /\ xres.window = "mapped"
    /\ xarrived < MaxEvents
    /\ size \in WMSizes \cup ({xrequest} \ {NoSize})
    /\ xqueue' = Append(xqueue, "ConfigureNotify")
    /\ xconfigs' = Append(xconfigs, size)
    /\ xrequest' = IF size = xrequest THEN NoSize ELSE xrequest
    /\ xarrived' = xarrived + 1
    /\ UNCHANGED <<threadFrame, wpc, panicVars, tx_senders, queried,
                   cursorVars, last_op, clone_window_info, ownVars,
                   parent_handle, is_open, xres, window_info, flagVars,
                   histVars>>

\* ---------------------------------------------------------- the event loop
\* q without its first ConfigureNotify
RECURSIVE WithoutFirstConfigure(_)
WithoutFirstConfigure(q) ==
    IF q = <<>> THEN <<>>
    ELSE IF Head(q) = "ConfigureNotify" THEN Tail(q)
    ELSE <<Head(q)>> \o WithoutFirstConfigure(Tail(q))

ConfigurePending == \E i \in 1..Len(xqueue) : xqueue[i] = "ConfigureNotify"

\* run(), step 1: a pending resize notification is handled before the other
\* events of the batch: the WindowInfo is recomputed from the new physical
\* size and the window's scale, and Resized is given to on_event
drain_configure ==
    /\ wpc = "loop_drain"
    /\ ConfigurePending
    /\ xqueue' = WithoutFirstConfigure(xqueue)
    /\ xconfigs' = Tail(xconfigs)
    /\ window_info' = from_physical_size(Head(xconfigs), window_info.scale)
    /\ Deliver("on_event", "Resized", window_info')
    /\ wpc' = "in_on_event"
    /\ UNCHANGED <<threadFrame, panicVars, tx_senders, queried, cursorVars,
                   last_op, clone_window_info, ownVars, xrequest,
                   parent_handle, is_open, xres, flagVars, loop_started,
                   signalled, xarrived>>

\* the uniform event a native event is translated to
Translate(e) == IF e = "ClientMessageDelete" THEN "CloseRequested" ELSE e

\* line 295: EventLoop::new(inner, handler, parent_handle).run()
event_loop_run ==
    /\ wpc = "run"
    /\ wpc' = "loop_drain"
    /\ loop_started' = TRUE
    /\ UNCHANGED <<threadFrame, panicVars, tx_senders, queried, rtVars, parent_handle,
                   is_open, xres, window_info, flagVars, xqueue, first_call,
                   pre_loop_calls, signalled, callback_threads, xarrived>>

\* run(), step 1: the next pending native event is translated and given to
\* on_event; the window manager's delete request is a close trigger
drain_event ==
    /\ wpc = "loop_drain"
    /\ xqueue # <<>>
    /\ ~ConfigurePending
    /\ xqueue' = Tail(xqueue)
    /\ inner_close_requested' =
          (inner_close_requested \/ Head(xqueue) = "ClientMessageDelete")
    /\ Deliver("on_event", Translate(Head(xqueue)), NoInfo)
    /\ wpc' = "in_on_event"
    /\ UNCHANGED <<threadFrame, panicVars, tx_senders, queried, rtVars, parent_handle,
                   is_open, xres, window_info, clone_close_requested,
                   loop_started, signalled, xarrived>>

\* run(), step 1: no native event is pending any more
drain_done ==
    /\ wpc = "loop_drain"
    /\ xqueue = <<>>
    /\ wpc' = "loop_poll"
    /\ UNCHANGED <<threadFrame, panicVars, tx_senders, queried, rtVars, parent_handle,
                   is_open, xres, window_info, flagVars, xqueue, histVars,
                   xarrived>>

\* run() fails on the connection: run()? returns the error (line 295) and
\* the closure's unwrap() panics
event_loop_error ==
    /\ wpc = "loop_drain"
    /\ wpc' = "drop_event_loop"
    /\ panicking' = TRUE
    /\ panic_site' = "event_loop"
    /\ UNCHANGED <<threadFrame, tx_senders, queried, rtVars, parent_handle, is_open,
                   xres, window_info, flagVars, xqueue, histVars, xarrived>>

\* run(), step 2: in parented mode the ParentHandle is polled
\* (parent_did_drop, lines 77-79); a close request it reports is a close
\* trigger.  try_recv takes the message of a parked sender.
poll_parent ==
    /\ wpc = "loop_poll"
    /\ wpc' = "loop_check"
    /\ IF parent_handle = "alive"
          /\ parent_did_drop(close_chan, window_handle.state # "dropped")
       THEN /\ inner_close_requested' = TRUE
            /\ close_chan' = IF close_chan = "offered" THEN "taken"
                             ELSE close_chan
       ELSE UNCHANGED <<inner_close_requested, close_chan>>
    /\ UNCHANGED <<openVars, callerVars, tx_buf, panicVars, tx_senders,
                   queried, rtVars, parent_handle, is_open, xres, window_info,
                   clone_close_requested, xqueue, histVars, xarrived>>

\* run(), step 3: a requested close ends the loop: the native window is
\* torn down and run() returns Ok
loop_close ==
    /\ wpc = "loop_check"
    /\ inner_close_requested
    /\ wpc' = "drop_event_loop"
    /\ xres' = [xres EXCEPT !.window = "destroyed"]
    /\ UNCHANGED <<threadFrame, panicVars, tx_senders, queried, rtVars, parent_handle,
                   is_open, window_info, flagVars, xqueue, histVars, xarrived>>

\* run(), step 4: otherwise on_frame is called once
loop_frame ==
    /\ wpc = "loop_check"
    /\ ~inner_close_requested
    /\ wpc' = "in_on_frame"
    /\ Deliver("on_frame", "none", NoInfo)
    /\ UNCHANGED <<threadFrame, panicVars, tx_senders, queried, rtVars, parent_handle,
                   is_open, xres, window_info, flagVars, xqueue, loop_started,
                   signalled, xarrived>>

\* ------------------------------------------------- leaving window_thread
\* Drop for ParentHandle (lines 82-86), run where the ParentHandle dies
DropParentHandle ==
    IF parent_handle = "alive"
    THEN /\ parent_handle' = "dropped"
         /\ is_open' = ParentHandleDropStore(is_open)
    ELSE UNCHANGED <<parent_handle, is_open>>

\* line 295: the EventLoop temporary, which owns the ParentHandle, the
\* WindowInner and the handler with the Window clones it kept, is dropped
\* when run() has returned or unwound
drop_event_loop ==
    /\ wpc = "drop_event_loop"
    /\ wpc' = "drop_locals"
    /\ DropParentHandle
    /\ DropInners(inners \ {"window"})
    /\ UNCHANGED <<threadFrame, panicVars, tx_senders, queried, cursorVars,
                   last_op, clone_window_info, sizeVars, xres,
                   window_info, flagVars, xqueue, histVars, xarrived>>

\* the natives held by window_thread's locals go with the connection
Released(r) ==
    [conn |-> IF r.conn = "open" THEN "closed" ELSE r.conn,
     gc |-> IF r.gc = "created" THEN "freed" ELSE r.gc,
     window |-> IF r.window \in {"created", "mapped"} THEN "destroyed"
                ELSE r.window,
     shown |-> r.shown]

\* lines 166-298: window_thread's locals are dropped (return or unwind)
drop_locals ==
    /\ wpc = "drop_locals"
    /\ wpc' = "drop_params"
    /\ xres' = Released(xres)
    /\ IF inners # {}
       THEN DropInners(inners)
       ELSE /\ teardown' = IF xres.conn = "open" THEN Append(teardown, "conn")
                           ELSE teardown
            /\ UNCHANGED <<inners, gl_context>>
    /\ UNCHANGED <<threadFrame, panicVars, tx_senders, queried, cursorVars,
                   last_op, clone_window_info, sizeVars, parent_handle,
                   is_open, window_info, flagVars, xqueue, histVars, xarrived>>

\* lines 167-168: window_thread's parameters are dropped last, in reverse
\* order: a ParentHandle not moved into the event loop, then tx
drop_params ==
    /\ wpc = "drop_params"
    /\ wpc' = "closure_exit"
    /\ DropParentHandle
    /\ tx_senders' = tx_senders - 1
    /\ UNCHANGED <<threadFrame, panicVars, queried, rtVars, xres, window_info,
                   flagVars, xqueue, histVars, xarrived>>

\* lines 136-139 / 155-157: the closure ends (its unwrap() panics on Err);
\* in parented mode the tx it captured is dropped; the thread terminates
closure_exit ==
    /\ wpc = "closure_exit"
    /\ wpc' = "terminated"
    /\ tx_senders' = IF mode = "parented" THEN tx_senders - 1 ELSE tx_senders
    /\ UNCHANGED <<threadFrame, panicVars, queried, rtVars, parent_handle, is_open,
                   xres, window_info, flagVars, xqueue, histVars, xarrived>>

\* --------------------------------------------------------- specifications
Caller ==
    \/ \E kind \in ParentKinds, opts \in WindowOpenOptions :
          open_parented(kind, opts)
    \/ \E opts \in WindowOpenOptions : open_blocking(opts)
    \/ close_call
    \/ is_open_call
    \/ drop_window_handle

\* the blocking calls of the initiating thread, which finish once they can
CallerWait ==
    \/ open_parented_recv
    \/ open_blocking_recv
    \/ open_blocking_join
    \/ close_return

WindowThread ==
    \/ thread_start
    \/ connect
    \/ create_gc
    \/ compute_window_info
    \/ find_visual
    \/ create_window
    \/ map_window
    \/ set_properties
    \/ flush
    \/ call_build
    \/ initial_event
    \/ signal_open
    \/ handler_return
    \/ handler_panic
    \/ window_close_clone
    \/ window_close_loop
    \/ event_loop_run
    \/ drain_event
    \/ drain_done
    \/ event_loop_error
    \/ poll_parent
    \/ loop_close
    \/ loop_frame
    \/ drop_event_loop
    \/ drop_locals
    \/ drop_params
    \/ closure_exit

XServer == \E e \in XEvents : xevent_arrives(e)

Next == Caller \/ CallerWait \/ WindowThread \/ XServer

Spec == Init /\ [][Next]_vars

\* window_thread up to the handshake, and its exit
Construct ==
    \/ thread_start
    \/ connect
    \/ create_gc
    \/ compute_window_info
    \/ find_visual
    \/ create_window
    \/ map_window
    \/ set_properties
    \/ flush

Unwind ==
    \/ drop_event_loop
    \/ drop_locals
    \/ drop_params
    \/ closure_exit

CallerBlocking ==
    \/ \E opts \in WindowOpenOptions : open_blocking(opts)
    \/ open_blocking_recv
    \/ open_blocking_join

\* a window opened in blocking mode whose handler uses the Window clones it
\* was given, closes the window from the event loop, and whose server
\* resizes the window
HandlerOps ==
    \/ \E w \in HandlerWindows, c \in Cursors : set_mouse_cursor(w, c)
    \/ \E w \in HandlerWindows : set_mouse_position(w)
    \/ \E w \in HandlerWindows, size \in ResizeSizes : resize(w, size)
    \/ \E w \in HandlerWindows : has_focus(w)
    \/ \E w \in HandlerWindows : focus(w)

XResize == \E size \in WMSizes \cup {xrequest} : configure_notify(size)

NextOps ==
    \/ CallerBlocking
    \/ Construct
    \/ call_build
    \/ initial_event
    \/ signal_open
    \/ handler_return
    \/ HandlerOps
    \/ window_close_loop
    \/ event_loop_run
    \/ XResize
    \/ drain_configure
    \/ drain_done
    \/ poll_parent
    \/ loop_close
    \/ loop_frame
    \/ Unwind

SpecOps == Init /\ [][NextOps]_vars

\* a window opened in blocking mode by a build with the opengl feature, whose
\* handler keeps or drops the Window clones it was given, and returns from
\* or panics in its callbacks
NextGl ==
    \/ CallerBlocking
    \/ Construct
    \/ call_build_opengl
    \/ initial_event
    \/ signal_open
    \/ handler_return
    \/ handler_panic
    \/ \E w \in HandlerWindows : drop_clone(w)
    \/ window_close_loop
    \/ event_loop_run
    \/ drain_done
    \/ event_loop_error
    \/ poll_parent
    \/ loop_close
    \/ loop_frame
    \/ Unwind

SpecGl == Init /\ [][NextGl]_vars

\* the scheduler runs the window thread, handler callbacks return (or
\* panic), and a blocking call of the initiating thread returns once it can
FairSpec == Spec /\ WF_vars(WindowThread) /\ WF_vars(CallerWait)

\* ================================================================= claims

\* the caller is parked inside close(): its request is neither taken nor
\* refused by a dropped receiver
CloseBlocked ==
    cpc = "in_close" /\ close_chan # "taken" /\ parent_handle = "alive"

\* C1: WindowHandle::close() never blocks the calling thread, whatever the
\* window thread is doing: a caller inside close() is never waiting for the
\* window thread to take the request.
C1_CloseNeverBlocks == ~CloseBlocked

\* C2: in parented mode, once the caller has dropped its WindowHandle
\* without ever calling close(), the window thread eventually terminates
\* and the liveness flag eventually is false.
C2_DropEndsWindow ==
    (mode = "parented" /\ cpc = "done" /\ ~close_called)
        ~> (wpc = "terminated" /\ ~is_open)

\* C3: is_open() evaluated by the caller immediately after open_parented
\* returned is true, under every interleaving with the window thread.
C3_OpenAtReturn == observed # "closed"

\* the window manager's delete request is pending for the window
DeleteRequested ==
    \E i \in 1..Len(xqueue) : xqueue[i] = "ClientMessageDelete"

\* C4: in parented mode, after close() was called on the WindowHandle, or
\* the window manager's delete request reached the window, is_open
\* eventually is false and stays false.
C4_CloseEndsWindow ==
    (mode = "parented" /\ (cpc = "in_close" \/ DeleteRequested))
        ~> [](~is_open)

C4_Witness ==
    /\ mode = "parented"
    /\ close_called
    /\ xarrived = 0
    /\ ~panicking
    /\ wpc = "terminated"
    /\ ~is_open

\* C5: in parented mode, whenever the window thread has terminated the
\* liveness flag is false, on every exit path.
C5_TerminatedNotOpen ==
    (mode = "parented" /\ wpc = "terminated") => ~is_open

C5_Witness ==
    /\ mode = "parented"
    /\ wpc = "terminated"
    /\ panicking
    /\ loop_started
    /\ ~is_open

\* the window thread failed before the send of line 291
PreSignalFailure == panicking /\ ~signalled

\* C6: if the window thread fails before it signals construction
\* completion, the caller's wait in open_parented / open_blocking ends in a
\* failure (a panic) and never hands a WindowHandle to the caller.
C6_FailedOpenFails ==
    /\ [](PreSignalFailure =>
            /\ cpc \in {"recv", "panicked"}
            /\ window_handle.state # "returned")
    /\ (PreSignalFailure ~> cpc = "panicked")

C6_Witness ==
    /\ PreSignalFailure
    /\ mode = "parented"
    /\ xres.shown
    /\ wpc = "terminated"
    /\ cpc = "panicked"
    /\ window_handle.state = "dropped"

\* C7: open_parented with a parent handle that is neither Xlib nor Xcb
\* fails in the caller before the thread, the channel, the handle pair or
\* any native resource exists.
C7_UnsupportedParentFailsEarly ==
    (mode = "parented" /\ parent_kind \notin {"Xlib", "Xcb"}) =>
        /\ cpc = "panicked"
        /\ wpc = "none"
        /\ tx_senders = 0
        /\ tx_buf = <<>>
        /\ parent_handle = "none"
        /\ window_handle.state = "none"
        /\ xres = [conn |-> "none", gc |-> "none", window |-> "none",
                   shown |-> FALSE]

C7_Witness ==
    mode = "parented" /\ parent_kind = "Win32" /\ cpc = "panicked"

\* the scale the options ask for: the fixed factor, or what the system
\* answered, 1.0 when it answered nothing
ExpectedScale ==
    IF options.scale.tag = "ScaleFactor" THEN options.scale.scale
    ELSE IF queried # 0 THEN queried ELSE 2

\* C8: the first callback the built handler receives is on_event with the
\* Resized event carrying the WindowInfo of the requested logical size at
\* the resolved scale (the fixed factor; the queried system factor, 1.0 when
\* the query yields none), delivered exactly once before the event loop
\* starts.
C8_FirstCallIsResized ==
    /\ first_call # NoCall =>
          first_call = [kind |-> "on_event", event |-> "Resized",
                        info |-> from_logical_size(options.size, ExpectedScale)]
    /\ loop_started => (pre_loop_calls = 1 /\ first_call # NoCall)
    /\ wpc \in {"in_on_event", "in_on_frame"} => first_call.event = "Resized"

C8_Witness ==
    /\ wpc = "in_on_frame"
    /\ options.scale.tag = "ScaleFactor"
    /\ options.scale.scale = 3
    /\ first_call.info.physical.width = 2
    /\ pre_loop_calls = 1

\* C9: open_parented waits only for the window thread's signal: once the
\* signal is sent the wait ends, also when the event loop never ends, and a
\* returned WindowHandle means the native window was created and mapped.
C9_ReturnsOnSignal ==
    /\ [](window_handle.state = "returned" => (signalled /\ xres.shown))
    /\ ((mode = "parented" /\ cpc = "recv" /\ signalled) ~> cpc = "has_handle")

C9_Witness ==
    /\ mode = "parented"
    /\ cpc = "has_handle"
    /\ wpc = "in_on_frame"
    /\ xres.window = "mapped"

\* C10: open_blocking returns only after the window thread has run the
\* event loop and its teardown to the end; after the return no callback
\* occurs.
C10_BlockingReturnsAfterLoop ==
    /\ []((mode = "blocking" /\ cpc = "returned") =>
            /\ wpc = "terminated"
            /\ loop_started
            /\ xres.conn = "closed")
    /\ [][(mode = "blocking" /\ cpc = "returned") =>
            (wpc' = wpc /\ first_call' = first_call)]_vars

C10_Witness ==
    /\ mode = "blocking"
    /\ cpc = "returned"
    /\ ~panicking
    /\ first_call # NoCall

\* C11: in blocking mode build and every handler callback run on the thread
\* that called open_blocking, and on no other thread.
C11_BlockingRunsOnCaller ==
    (mode = "blocking" /\ callback_threads # {}) =>
        callback_threads = {"caller"}

\* C12: in blocking mode a panic of the handler during event or frame
\* dispatch reaches the caller as a failure: open_blocking does not return
\* normally after it.
C12_BlockingPanicPropagates ==
    (mode = "blocking" /\ cpc = "returned") => panic_site # "dispatch"

\* C13: once the handler has called Window::close() on a Window it was
\* given (by build, with the initial Resized event, or by a later callback)
\* the event loop ends and the window thread terminates.
C13_HandlerCloseEndsLoop ==
    (clone_close_requested \/ inner_close_requested) ~> wpc = "terminated"

\* C14: one thread, and only one, runs build, on_event and on_frame of a
\* window; in parented mode it is never the initiating thread.
C14_OneCallbackThread ==
    /\ Cardinality(callback_threads) <= 1
    /\ mode = "parented" => "caller" \notin callback_threads
    /\ wpc \in InCallback => callback_threads # {}

C14_Witness ==
    /\ mode = "parented"
    /\ cpc = "in_close"
    /\ wpc = "in_on_frame"
    /\ callback_threads = {"spawned"}

\* C17: the liveness flag is true from the creation of the handle pair, is
\* written only by the drop of the ParentHandle, true to false, once, and is
\* never true again; close(), is_open() and the drop of the WindowHandle
\* leave it alone.
C17_FlagWrittenOnce ==
    /\ [](parent_handle = "alive" => is_open)
    /\ [](parent_handle = "dropped" => ~is_open)
    /\ [][is_open' # is_open =>
            \/ parent_handle = "none" /\ parent_handle' = "alive" /\ is_open'
            \/ parent_handle = "alive" /\ parent_handle' = "dropped"
                  /\ ~is_open']_vars

C17_Witness ==
    /\ parent_handle = "dropped"
    /\ ~is_open
    /\ close_called
    /\ observed = "open"
    /\ cpc = "done"

\* C18: the raw native reference of a WindowHandle is absent at creation,
\* is set once, to the identifier the window thread sent after construction,
\* and never changes afterwards; a WindowHandle the caller holds has it.
C18_RawHandleSetOnce ==
    /\ [](window_handle.state = "local" =>
            window_handle.raw_window_handle = "None")
    /\ [](cpc \in {"has_handle", "in_close"} =>
            (window_handle.raw_window_handle = "Xlib" /\ signalled))
    /\ [][window_handle.raw_window_handle # "None" =>
            window_handle'.raw_window_handle
                = window_handle.raw_window_handle]_vars

C18_Witness ==
    /\ cpc = "has_handle"
    /\ window_handle.state = "returned"
    /\ window_handle.raw_window_handle = "Xlib"

\* C15: a native failure inside a runtime Window operation (the cursor
\* lookup or the request of set_mouse_cursor, set_mouse_position, resize) is
\* not fatal: the operation returns and the window thread does not unwind
\* from it.
C15_RuntimeFailureNonFatal ==
    last_op.failed => (last_op.returned /\ panic_site # "set_mouse_cursor")

\* the physical sizes Window::resize can ask for at the window's scale
Requestable ==
    {from_logical_size(size, window_info.scale).physical : size \in ResizeSizes}

\* a step that handles a resize notification of the server
NotifiedResize ==
    /\ wpc = "loop_drain"
    /\ ConfigurePending
    /\ window_info'.physical = Head(xconfigs)
    /\ window_info'.scale = window_info.scale

\* C16: the runtime Window operations leave the WindowInfo as it is; resize
\* computes the physical size it asks for from the current scale and only
\* asks; after it was computed at open, the WindowInfo changes only when a
\* resize notification of the server is handled, and its scale not at all.
C16_OpsLeaveWindowInfo ==
    /\ [](clone_window_info # NoInfo =>
             clone_window_info.scale = window_info.scale)
    /\ [](xrequest # NoSize => xrequest \in Requestable)
    /\ [][last_op' # last_op =>
             (window_info' = window_info
                /\ clone_window_info' = clone_window_info)]_vars
    /\ [][window_info' # window_info =>
             (wpc = "scaling" \/ NotifiedResize)]_vars

\* the handler asked for a resize, the server applied it, and the event loop
\* took the new size into the WindowInfo
C16_Witness ==
    /\ last_op.name = "resize"
    /\ ~last_op.failed
    /\ xrequest = NoSize
    /\ window_info.logical \in ResizeSizes
    /\ window_info.physical \in Requestable
    /\ first_call.info # window_info

\* C19: in teardown the GL context is destroyed before the X connection,
\* however many Window clones the handler kept and in whatever order the
\* WindowInner values are dropped.
C19_GlBeforeConnection ==
    /\ xres.conn = "closed" => gl_context # "alive"
    /\ \A i, j \in 1..Len(teardown) :
          (teardown[i] = "gl" /\ teardown[j] = "conn") => i < j

\* a window with a GL context was closed from the event loop and torn down
C19_Witness ==
    /\ wpc = "terminated"
    /\ ~panicking
    /\ gl_context = "destroyed"
    /\ xres.conn = "closed"
    /\ teardown = <<"gl", "conn">>

\* C20: after set_mouse_cursor(c) has returned on any Window clone, the
\* cursor of the native window is c.
C20_CursorCacheAgrees ==
    (last_op.name = "set_mouse_cursor" /\ last_op.returned) =>
        xcursor = last_op.arg

====
